---- MODULE Spec2Model ----
(***************************************************************************)
(* Model of MI::MDL::Mdl_function_call                                      *)
(* (src/io/scene/mdl_elements/mdl_elements_function_call.cpp): argument    *)
(* binding, promotion to mutable, lowering to the JIT, serialization and   *)
(* scene element references of one function call stored in the database.  *)
(***************************************************************************)
EXTENDS Integers, Sequences, FiniteSets, TLC

\* ------------------------------------------------------------------ bounds
\* Longest argument list handed to set_arguments.
MaxListLen == 3

\* ------------------------------------------------------------- DB tags
\* DB::Tag: NullTag is the invalid tag (default constructed DB::Tag).
NullTag == "tag:0"
is_valid(tag) == tag # NullTag

\* The tag under which the modelled function call itself is stored.
SelfTag == "call:self"

\* ------------------------------------------------------------- IType
\* An IType of the scene API: its base type (all aliases and modifiers
\* skipped) and the modifiers of get_all_type_modifiers().
MK_UNIFORM == "MK_UNIFORM"
MK_VARYING == "MK_VARYING"
Bases == {"float", "color"}
Modifiers == {{}, {MK_UNIFORM}, {MK_VARYING}}
Types == [base : Bases, mods : Modifiers]
NullType == [base |-> "NULL", mods |-> {}]
T(base, mods) == [base |-> base, mods |-> mods]

\* ------------------------------------------------------------- IExpression
EK_CONSTANT == "EK_CONSTANT"
EK_CALL == "EK_CALL"
EK_PARAMETER == "EK_PARAMETER"
EK_TEMPORARY == "EK_TEMPORARY"
NullExpr == [kind |-> "NULL", type |-> NullType, tag |-> NullTag, value |-> ""]
Constant(type, value) ==
    [kind |-> EK_CONSTANT, type |-> type, tag |-> NullTag, value |-> value]
Call(type, tag) == [kind |-> EK_CALL, type |-> type, tag |-> tag, value |-> ""]
Other(kind, type) == [kind |-> kind, type |-> type, tag |-> NullTag, value |-> ""]

\* ------------------------------------------------------------- the database
\* Function calls stored in the database that an argument may refer to:
\* the static type of a call expression on them, whether their return value
\* is varying once their own arguments are taken into account, and the tags
\* of the calls their arguments refer to.
StoredCall ==
    [t \in {"call:1", "call:2", "call:3", "call:4", "call:5"} |->
        CASE t = "call:1" -> [type |-> T("float", {}), varying |-> FALSE, args |-> {}]
          [] t = "call:2" -> [type |-> T("float", {}), varying |-> TRUE, args |-> {}]
          [] t = "call:3" -> [type |-> T("float", {MK_VARYING}), varying |-> TRUE,
                              args |-> {"call:1"}]
          [] t = "call:4" -> [type |-> T("float", {}), varying |-> FALSE,
                              args |-> {SelfTag}]
          [] t = "call:5" -> [type |-> T("color", {MK_UNIFORM}), varying |-> FALSE,
                              args |-> {"call:1"}]]
CallTags == DOMAIN StoredCall

\* mi::mdl::IType of a definition's return type: kind, the aliased type of
\* an alias, and the fields and symbol name of a struct.
TK_COLOR == "TK_COLOR"
TK_FLOAT == "TK_FLOAT"
TK_STRUCT == "TK_STRUCT"
TK_ALIAS == "TK_ALIAS"
Atomic(kind) == [kind |-> kind, of |-> <<>>, fields |-> <<>>, symbol |-> ""]
Alias(type) == [kind |-> TK_ALIAS, of |-> <<type>>, fields |-> <<>>, symbol |-> ""]
Struct(symbol, fields) ==
    [kind |-> TK_STRUCT, of |-> <<>>, fields |-> fields, symbol |-> symbol]
TextureReturnName == "::base::texture_return"

RECURSIVE skip_type_alias(_)
skip_type_alias(type) ==
    IF type.kind = TK_ALIAS THEN skip_type_alias(type.of[1]) ELSE type

\* mi::mdl::as<IType_struct>(): the struct behind the aliases, if it is one.
IsStruct(type) == skip_type_alias(type).kind = TK_STRUCT

\* Parameter lists of the stored definitions.
Param(name, type) == [name |-> name, type |-> type]
UniformVaryingFloat ==
    << Param("a", T("float", {MK_UNIFORM})), Param("b", T("float", {MK_VARYING})) >>
FloatColor == << Param("a", T("float", {})), Param("b", T("color", {})) >>
UniformVaryingColor ==
    << Param("a", T("color", {MK_UNIFORM})), Param("b", T("color", {MK_VARYING})) >>
OneFloat == << Param("a", T("float", {})) >>

Def(name, module, index, semantic, params, defaults, ret, mdl_ret, conds) ==
    [name |-> name, module |-> module, function_index |-> index, semantic |-> semantic,
     parameter_types |-> params, defaults |-> defaults, return_type |-> ret,
     mdl_return_type |-> mdl_ret, enable_if_conditions |-> conds]

\* Default arguments of the stored definitions.
Arg(name, expr) == [name |-> name, expr |-> expr]
ConstantDefaults(params) ==
    [i \in 1..Len(params) |->
        Arg(params[i].name, Constant(T(params[i].type.base, {}), "default"))]
ColorDefaults ==
    << Arg("a", Constant(T("color", {}), "default")),
       Arg("b", Call(T("color", {MK_UNIFORM}), "call:5")) >>

NoConds == <<>>
CondOnCall ==
    << [name |-> "a", expr |-> Call(T("float", {}), "call:2")] >>

\* Function definitions stored in the database, by tag.
Definition ==
    [d \in {"def:1", "def:2", "def:3", "def:4", "def:5", "def:6", "def:7"} |->
        CASE d = "def:1" ->
                Def("::m::env(float,float)", "module:1", 0, "DS_UNKNOWN", UniformVaryingFloat,
                    ConstantDefaults(UniformVaryingFloat), T("color", {}),
                    Atomic(TK_COLOR), CondOnCall)
          [] d = "def:2" ->
                Def("::m::tex(float,color)", "module:1", 1, "DS_UNKNOWN", FloatColor,
                    ConstantDefaults(FloatColor),
                    T("texture_return", {}),
                    Struct(TextureReturnName, <<Atomic(TK_COLOR), Atomic(TK_FLOAT)>>),
                    NoConds)
          [] d = "def:3" ->
                Def("::n::tint(color,color)", "module:2", 0, "DS_INTRINSIC_DF_TINT", UniformVaryingColor,
                    ColorDefaults,
                    T("color", {}), Alias(Atomic(TK_COLOR)), NoConds)
          [] d = "def:4" ->
                Def("::n::scale(float)", "module:2", 1, "DS_INTRINSIC_MATH_ABS", OneFloat,
                    ConstantDefaults(OneFloat),
                    T("float", {}), Atomic(TK_FLOAT), NoConds)
          [] d = "def:5" ->
                Def("::n::other(float)", "module:2", 2, "DS_UNKNOWN", OneFloat,
                    ConstantDefaults(OneFloat),
                    T("other_return", {}),
                    Struct("::base::other_return", <<Atomic(TK_COLOR), Atomic(TK_FLOAT)>>),
                    NoConds)
          [] d = "def:6" ->
                Def("::n::swapped(float)", "module:2", 3, "DS_UNKNOWN", OneFloat,
                    ConstantDefaults(OneFloat),
                    T("texture_return", {}),
                    Struct(TextureReturnName, <<Atomic(TK_FLOAT), Atomic(TK_COLOR)>>),
                    NoConds)
          [] d = "def:7" ->
                Def("::n::wide(float)", "module:2", 4, "DS_UNKNOWN", OneFloat,
                    ConstantDefaults(OneFloat),
                    T("texture_return", {}),
                    Alias(Struct(TextureReturnName,
                        <<Alias(Atomic(TK_COLOR)), Atomic(TK_FLOAT), Atomic(TK_FLOAT)>>)),
                    NoConds)]
DefTags == DOMAIN Definition
ModuleTags == {Definition[d].module : d \in DefTags}

\* ------------------------------------------------------------- lists
\* IType_list / IExpression_list: named entries in insertion order; the
\* index of a name, mi::Size(-1) when there is none.
get_index(list, name) ==
    IF \E i \in 1..Len(list) : list[i].name = name
    THEN (CHOOSE i \in 1..Len(list) : list[i].name = name) - 1
    ELSE -1
get_type(list, index) ==
    IF index \in 0..(Len(list) - 1) THEN list[index + 1].type ELSE NullType
get_expression(list, name) ==
    IF get_index(list, name) >= 0 THEN list[get_index(list, name) + 1].expr ELSE NullExpr
set_expression(list, index, expr) ==
    IF index \in 0..(Len(list) - 1)
    THEN [list EXCEPT ![index + 1] = [@ EXCEPT !.expr = expr]]
    ELSE list
\* IExpression_factory::clone(): a copy, equal in value, of an expression
\* and of an expression list.
clone(expr) ==
    [kind |-> expr.kind, type |-> expr.type, tag |-> expr.tag, value |-> expr.value]
clone_list(list) ==
    [i \in 1..Len(list) |-> [name |-> list[i].name, expr |-> clone(list[i].expr)]]

\* An IExpression is an object. The caller of set_argument keeps a reference
\* to the expression it hands in: `object` marks that expression, and
\* tells it from any other expression of the same contents. clone() builds
\* its result from the contents, an object nobody else refers to. The null
\* pointer is no object.
held_by_caller(expr) ==
    IF expr = NullExpr THEN expr
    ELSE [kind |-> expr.kind, type |-> expr.type, tag |-> expr.tag, value |-> expr.value,
          object |-> "argument"]
is_held_by_caller(expr) == "object" \in DOMAIN expr
\* The caller changes the expression it holds: another call for a call
\* expression, another value for the others.
changed_by_caller(expr) ==
    IF expr.kind = EK_CALL
    THEN [expr EXCEPT !.tag = IF @ = "call:1" THEN "call:2" ELSE "call:1"]
    ELSE [expr EXCEPT !.value = "changed"]
\* An expression list after that change: an entry that is the caller's
\* object has changed with it.
seen_through(list) ==
    [i \in 1..Len(list) |->
        IF is_held_by_caller(list[i].expr)
        THEN [list[i] EXCEPT !.expr = changed_by_caller(@)]
        ELSE list[i]]

\* ------------------------------------------------------------- the call
Mdl_function_call(module_tag, definition_tag, function_index, arguments, semantic, definition_name, parameter_types, return_type, immutable, enable_if_conditions) ==
    [m_module_tag |-> module_tag,
     m_definition_tag |-> definition_tag,
     m_function_index |-> function_index,
     m_mdl_semantic |-> semantic,
     m_definition_name |-> definition_name,
     m_immutable |-> immutable,
     m_parameter_types |-> parameter_types,
     m_return_type |-> return_type,
     m_arguments |-> arguments,
     m_enable_if_conditions |-> enable_if_conditions]

\* Copy constructor: the arguments are cloned, everything else is shared.
Mdl_function_call_copy(other) ==
    [m_module_tag |-> other.m_module_tag,
     m_definition_tag |-> other.m_definition_tag,
     m_function_index |-> other.m_function_index,
     m_mdl_semantic |-> other.m_mdl_semantic,
     m_definition_name |-> other.m_definition_name,
     m_immutable |-> other.m_immutable,
     m_parameter_types |-> other.m_parameter_types,
     m_return_type |-> other.m_return_type,
     m_arguments |-> clone_list(other.m_arguments),
     m_enable_if_conditions |-> other.m_enable_if_conditions]

get_parameter_index(this, name) == get_index(this.m_arguments, name)

\* ------------------------------------------------------------- binding
\* The structural match of the argument's type with the parameter's type:
\* the types agree once aliases and modifiers are skipped.
argument_type_matches_parameter_type(actual_type, expected_type) ==
    actual_type.base = expected_type.base

\* Whether the value of the argument is varying, looked up in the database
\* for a call.
return_type_is_varying(argument) ==
    IF argument.kind = EK_CALL THEN StoredCall[argument.tag].varying ELSE FALSE

Outcome(node, result) == [node |-> node, result |-> result]

\* Variants of set_argument with one slip each, against which the
\* properties below are tried.
\* The mutability check made before the type check.
set_argument_ImmutableFirst(this, index, argument) ==
    LET expected_type == get_type(this.m_parameter_types, index)
        actual_type == argument.type
        actual_type_varying == MK_VARYING \in actual_type.mods
        expected_type_uniform == MK_UNIFORM \in expected_type.mods
    IN  IF argument = NullExpr THEN Outcome(this, -1)
        ELSE IF expected_type = NullType THEN Outcome(this, -2)
        ELSE IF this.m_immutable THEN Outcome(this, -4)
        ELSE IF ~argument_type_matches_parameter_type(actual_type, expected_type)
            THEN Outcome(this, -3)
        ELSE IF actual_type_varying /\ expected_type_uniform THEN Outcome(this, -5)
        ELSE IF argument.kind # EK_CONSTANT /\ argument.kind # EK_CALL
            THEN Outcome(this, -6)
        ELSE IF expected_type_uniform /\ return_type_is_varying(argument)
            THEN Outcome(this, -8)
        ELSE Outcome([this EXCEPT !.m_arguments =
                        set_expression(@, index, clone(argument))], 0)
\* The mutability check left out.
set_argument_NoImmutableCheck(this, index, argument) ==
    LET expected_type == get_type(this.m_parameter_types, index)
        actual_type == argument.type
        actual_type_varying == MK_VARYING \in actual_type.mods
        expected_type_uniform == MK_UNIFORM \in expected_type.mods
    IN  IF argument = NullExpr THEN Outcome(this, -1)
        ELSE IF expected_type = NullType THEN Outcome(this, -2)
        ELSE IF ~argument_type_matches_parameter_type(actual_type, expected_type)
            THEN Outcome(this, -3)
        ELSE IF actual_type_varying /\ expected_type_uniform THEN Outcome(this, -5)
        ELSE IF argument.kind # EK_CONSTANT /\ argument.kind # EK_CALL
            THEN Outcome(this, -6)
        ELSE IF expected_type_uniform /\ return_type_is_varying(argument)
            THEN Outcome(this, -8)
        ELSE Outcome([this EXCEPT !.m_arguments =
                        set_expression(@, index, clone(argument))], 0)
\* The expression kind check left out.
set_argument_NoKindCheck(this, index, argument) ==
    LET expected_type == get_type(this.m_parameter_types, index)
        actual_type == argument.type
        actual_type_varying == MK_VARYING \in actual_type.mods
        expected_type_uniform == MK_UNIFORM \in expected_type.mods
    IN  IF argument = NullExpr THEN Outcome(this, -1)
        ELSE IF expected_type = NullType THEN Outcome(this, -2)
        ELSE IF ~argument_type_matches_parameter_type(actual_type, expected_type)
            THEN Outcome(this, -3)
        ELSE IF this.m_immutable THEN Outcome(this, -4)
        ELSE IF actual_type_varying /\ expected_type_uniform THEN Outcome(this, -5)
        ELSE IF expected_type_uniform /\ return_type_is_varying(argument)
            THEN Outcome(this, -8)
        ELSE Outcome([this EXCEPT !.m_arguments =
                        set_expression(@, index, clone(argument))], 0)
\* The argument stored before the last check is made.
set_argument_StoreBeforeLastCheck(this, index, argument) ==
    LET expected_type == get_type(this.m_parameter_types, index)
        actual_type == argument.type
        actual_type_varying == MK_VARYING \in actual_type.mods
        expected_type_uniform == MK_UNIFORM \in expected_type.mods
        stored == [this EXCEPT !.m_arguments = set_expression(@, index, clone(argument))]
    IN  IF argument = NullExpr THEN Outcome(this, -1)
        ELSE IF expected_type = NullType THEN Outcome(this, -2)
        ELSE IF ~argument_type_matches_parameter_type(actual_type, expected_type)
            THEN Outcome(this, -3)
        ELSE IF this.m_immutable THEN Outcome(this, -4)
        ELSE IF actual_type_varying /\ expected_type_uniform THEN Outcome(this, -5)
        ELSE IF argument.kind # EK_CONSTANT /\ argument.kind # EK_CALL
            THEN Outcome(this, -6)
        ELSE IF expected_type_uniform /\ return_type_is_varying(argument)
            THEN Outcome(stored, -8)
        ELSE Outcome(stored, 0)

\* The argument itself stored, not a clone of it.
set_argument_StoreArgument(this, index, argument) ==
    LET expected_type == get_type(this.m_parameter_types, index)
        actual_type == argument.type
        actual_type_varying == MK_VARYING \in actual_type.mods
        expected_type_uniform == MK_UNIFORM \in expected_type.mods
    IN  IF argument = NullExpr THEN Outcome(this, -1)
        ELSE IF expected_type = NullType THEN Outcome(this, -2)
        ELSE IF ~argument_type_matches_parameter_type(actual_type, expected_type)
            THEN Outcome(this, -3)
        ELSE IF this.m_immutable THEN Outcome(this, -4)
        ELSE IF actual_type_varying /\ expected_type_uniform THEN Outcome(this, -5)
        ELSE IF argument.kind # EK_CONSTANT /\ argument.kind # EK_CALL
            THEN Outcome(this, -6)
        ELSE IF expected_type_uniform /\ return_type_is_varying(argument)
            THEN Outcome(this, -8)
        ELSE Outcome([this EXCEPT !.m_arguments =
                        set_expression(@, index, argument)], 0)

\* set_argument(transaction, index, argument)
set_argument(this, index, argument) ==
    LET expected_type == get_type(this.m_parameter_types, index)
        actual_type == argument.type
        actual_type_varying == MK_VARYING \in actual_type.mods
        expected_type_uniform == MK_UNIFORM \in expected_type.mods
    IN  IF argument = NullExpr THEN Outcome(this, -1)
        ELSE IF expected_type = NullType THEN Outcome(this, -2)
        ELSE IF ~argument_type_matches_parameter_type(actual_type, expected_type)
            THEN Outcome(this, -3)
        ELSE IF this.m_immutable THEN Outcome(this, -4)
        ELSE IF actual_type_varying /\ expected_type_uniform THEN Outcome(this, -5)
        ELSE IF argument.kind # EK_CONSTANT /\ argument.kind # EK_CALL
            THEN Outcome(this, -6)
        ELSE IF expected_type_uniform /\ return_type_is_varying(argument)
            THEN Outcome(this, -8)
        ELSE Outcome([this EXCEPT !.m_arguments =
                        set_expression(@, index, clone(argument))], 0)

\* set_argument(transaction, name, argument)
NullName == "<null>"
set_argument_by_name(this, name, argument) ==
    IF name = NullName \/ argument = NullExpr THEN Outcome(this, -1)
    ELSE set_argument(this, get_parameter_index(this, name), argument)

\* set_arguments(transaction, arguments): NullList is the null pointer.
NullList == << [name |-> NullName, expr |-> NullExpr] >>
RECURSIVE set_arguments_from(_, _, _)
set_arguments_from(this, arguments, i) ==
    IF i > Len(arguments) THEN Outcome(this, 0)
    ELSE LET name == arguments[i].name
             argument == get_expression(arguments, name)
             one == set_argument_by_name(this, name, argument)
         IN  IF one.result # 0 THEN Outcome(one.node, one.result)
             ELSE set_arguments_from(one.node, arguments, i + 1)
\* A variant of set_arguments that undoes the bindings made when an entry
\* is rejected.
set_arguments_AllOrNothing(this, arguments) ==
    IF arguments = NullList THEN Outcome(this, -1)
    ELSE LET done == set_arguments_from(this, arguments, 1)
         IN  IF done.result # 0 THEN Outcome(this, done.result) ELSE done
set_arguments(this, arguments) ==
    IF arguments = NullList THEN Outcome(this, -1)
    ELSE set_arguments_from(this, arguments, 1)

\* A variant of make_mutable that does not look up the module.
make_mutable_NoModuleLookup(this) == [this EXCEPT !.m_immutable = FALSE]

\* make_mutable(transaction)
make_mutable(this) ==
    LET resolved ==
            IF ~is_valid(this.m_module_tag)
            THEN [this EXCEPT !.m_module_tag = Definition[this.m_definition_tag].module]
            ELSE this
    IN  [resolved EXCEPT !.m_immutable = FALSE]

\* ------------------------------------------------------------- lowering
\* The code DAG of a module describes its functions by index.
CodeDagFunction(module_tag, function_index) ==
    Definition[CHOOSE d \in DefTags :
        /\ Definition[d].module = module_tag
        /\ Definition[d].function_index = function_index]

\* The tags of the calls the arguments of the call stored under `tag` refer
\* to; the arguments of the modelled call are its current ones.
CallArgumentTags(this, tag) ==
    IF tag = SelfTag
    THEN {this.m_arguments[i].expr.tag :
            i \in {j \in 1..Len(this.m_arguments) : this.m_arguments[j].expr.kind = EK_CALL}}
    ELSE StoredCall[tag].args

\* Conversion of the call stored under `tag` to a DAG node while the calls
\* in `trace` are being converted: it fails on a cycle.
RECURSIVE call_to_mdl_dag_node(_, _, _)
call_to_mdl_dag_node(this, tag, trace) ==
    /\ tag \notin trace
    /\ \A t \in CallArgumentTags(this, tag) :
            call_to_mdl_dag_node(this, t, trace \cup {tag})

\* int_expr_to_mdl_dag_node(): TRUE when a DAG node is returned.
int_expr_to_mdl_dag_node(this, argument) ==
    CASE argument.kind = EK_CONSTANT -> TRUE
      [] argument.kind = EK_CALL -> call_to_mdl_dag_node(this, argument.tag, {})
      [] OTHER -> FALSE

\* What a run of create_jitted_function() did: *errors, whether a function
\* is returned, and its calls to the MDL compiler in order: the lambda
\* function created, the parameters whose argument was converted, the DAG
\* calls created, how the call was attached and the compile entry point.
NoJit ==
    [errors |-> -1, jitted_func |-> FALSE, lambda |-> "none", converted |-> <<>>,
     calls |-> <<>>, attached |-> "none", compiled |-> "none", crashed |-> FALSE]

\* A variant of the return type check that does not enforce the name.
return_type_is_ok_AnyName(return_type) ==
    IF skip_type_alias(return_type).kind = TK_COLOR THEN TRUE
    ELSE IF IsStruct(return_type)
    THEN LET s_type == skip_type_alias(return_type)
         IN  IF Len(s_type.fields) = 2
             THEN /\ skip_type_alias(s_type.fields[1]).kind = TK_COLOR
                  /\ skip_type_alias(s_type.fields[2]).kind = TK_FLOAT
             ELSE FALSE
    ELSE FALSE

\* The return type check of create_jitted_function().
return_type_is_ok(return_type) ==
    IF skip_type_alias(return_type).kind = TK_COLOR THEN TRUE
    ELSE IF IsStruct(return_type)
    THEN LET s_type == skip_type_alias(return_type)
             fields_ok ==
                IF Len(s_type.fields) = 2
                THEN /\ skip_type_alias(s_type.fields[1]).kind = TK_COLOR
                     /\ skip_type_alias(s_type.fields[2]).kind = TK_FLOAT
                ELSE FALSE
         IN  IF s_type.symbol # TextureReturnName THEN FALSE ELSE fields_ok
    ELSE FALSE

\* A variant of the argument loop that does not test the converted node.
RECURSIVE convert_arguments_Unchecked(_, _, _)
convert_arguments_Unchecked(this, params, i) ==
    IF i > Len(params) THEN <<>>
    ELSE <<params[i].name>> \o convert_arguments_Unchecked(this, params, i + 1)

\* The parameters, in order, up to and excluding the first one whose
\* argument does not convert.
RECURSIVE convert_arguments(_, _, _)
convert_arguments(this, params, i) ==
    IF i > Len(params) THEN <<>>
    ELSE IF ~int_expr_to_mdl_dag_node(
                this, get_expression(this.m_arguments, params[i].name))
        THEN <<>>
    ELSE <<params[i].name>> \o convert_arguments(this, params, i + 1)

create_jitted_function(this, environment_context, generator_jit_valid, compiles) ==
    IF ~generator_jit_valid THEN NoJit
    ELSE IF ~is_valid(this.m_definition_tag) THEN [NoJit EXCEPT !.crashed = TRUE]
    ELSE LET function_definition == Definition[this.m_definition_tag]
             return_type == function_definition.mdl_return_type
         IN
         IF ~return_type_is_ok(return_type) THEN [NoJit EXCEPT !.errors = -2]
         ELSE IF ~is_valid(this.m_module_tag) THEN [NoJit EXCEPT !.crashed = TRUE]
         ELSE LET code_dag == CodeDagFunction(this.m_module_tag, this.m_function_index)
                  lambda_func ==
                     IF environment_context THEN "LEC_ENVIRONMENT" ELSE "LEC_DISPLACEMENT"
                  params == code_dag.parameter_types
                  converted == convert_arguments(this, params, 1)
                  call == [name |-> code_dag.name,
                           semantic |-> function_definition.semantic,
                           n_args |-> Len(params)]
                  select == [name |-> skip_type_alias(return_type).symbol,
                             semantic |-> "DS_INTRINSIC_DAG_FIELD_ACCESS",
                             n_args |-> 1]
              IN
              IF Len(converted) < Len(params)
              THEN [NoJit EXCEPT !.errors = -3, !.lambda = lambda_func,
                                 !.converted = converted]
              ELSE [errors |-> IF compiles THEN 0 ELSE -4,
                    jitted_func |-> compiles,
                    lambda |-> lambda_func,
                    converted |-> converted,
                    calls |-> IF IsStruct(return_type) THEN <<call, select>> ELSE <<call>>,
                    attached |-> IF environment_context THEN "set_body"
                                 ELSE "store_root_expr",
                    compiled |-> IF environment_context THEN "compile_into_environment"
                                 ELSE "compile_into_switch_function",
                    crashed |-> FALSE]

\* ------------------------------------------------------------- persistence
\* The values written to a serializer, in order, each with its wire type.
Written(wire, value) == [wire |-> wire, v |-> value]

RECURSIVE serialize_type_entries(_, _)
serialize_type_entries(list, i) ==
    IF i > Len(list) THEN <<>>
    ELSE <<Written("string", list[i].name), Written("type", list[i].type)>>
            \o serialize_type_entries(list, i + 1)
serialize_type_list(list) ==
    <<Written("size", Len(list))>> \o serialize_type_entries(list, 1)

RECURSIVE serialize_expression_entries(_, _)
serialize_expression_entries(list, i) ==
    IF i > Len(list) THEN <<>>
    ELSE <<Written("string", list[i].name), Written("expression", list[i].expr)>>
            \o serialize_expression_entries(list, i + 1)
serialize_expression_list(list) ==
    <<Written("size", Len(list))>> \o serialize_expression_entries(list, 1)

\* A list read at position `at` of the stream, and the position after it.
deserialize_type_list(stream, at) ==
    [list |-> [i \in 1..stream[at].v |->
                [name |-> stream[at + 2 * i - 1].v, type |-> stream[at + 2 * i].v]],
     next |-> at + 1 + 2 * stream[at].v]
deserialize_expression_list(stream, at) ==
    [list |-> [i \in 1..stream[at].v |->
                [name |-> stream[at + 2 * i - 1].v, expr |-> stream[at + 2 * i].v]],
     next |-> at + 1 + 2 * stream[at].v]

\* A variant of deserialize that reads the definition tag first.
deserialize_DefinitionTagFirst(stream) ==
    LET parameter_types == deserialize_type_list(stream, 8)
        return_type == stream[parameter_types.next].v
        arguments == deserialize_expression_list(stream, parameter_types.next + 1)
        enable_if_conditions == deserialize_expression_list(stream, arguments.next)
    IN  [m_module_tag |-> stream[3].v,
         m_definition_tag |-> stream[2].v,
         m_function_index |-> stream[4].v,
         m_mdl_semantic |-> stream[5].v,
         m_definition_name |-> stream[6].v,
         m_immutable |-> stream[7].v,
         m_parameter_types |-> parameter_types.list,
         m_return_type |-> return_type,
         m_arguments |-> arguments.list,
         m_enable_if_conditions |-> enable_if_conditions.list]

serialize(this) ==
    << Written("base", "Scene_element_base"),
       Written("tag", this.m_module_tag),
       Written("tag", this.m_definition_tag),
       Written("Uint32", this.m_function_index),
       Written("Uint32", this.m_mdl_semantic),
       Written("string", this.m_definition_name),
       Written("bool", this.m_immutable) >>
    \o serialize_type_list(this.m_parameter_types)
    \o <<Written("type", this.m_return_type)>>
    \o serialize_expression_list(this.m_arguments)
    \o serialize_expression_list(this.m_enable_if_conditions)

deserialize(stream) ==
    LET parameter_types == deserialize_type_list(stream, 8)
        return_type == stream[parameter_types.next].v
        arguments == deserialize_expression_list(stream, parameter_types.next + 1)
        enable_if_conditions == deserialize_expression_list(stream, arguments.next)
    IN  [m_module_tag |-> stream[2].v,
         m_definition_tag |-> stream[3].v,
         m_function_index |-> stream[4].v,
         m_mdl_semantic |-> stream[5].v,
         m_definition_name |-> stream[6].v,
         m_immutable |-> stream[7].v,
         m_parameter_types |-> parameter_types.list,
         m_return_type |-> return_type,
         m_arguments |-> arguments.list,
         m_enable_if_conditions |-> enable_if_conditions.list]

\* ------------------------------------------------------------- references
\* The tags an expression list refers to.
collect_references(list, result) ==
    result \cup {list[i].expr.tag :
                    i \in {j \in 1..Len(list) : list[j].expr.kind = EK_CALL}}

\* A variant of get_scene_element_references without the test of
\* m_immutable.
get_scene_element_references_AlwaysModule(this, result) ==
    collect_references(this.m_enable_if_conditions,
        collect_references(this.m_arguments, result \cup {this.m_module_tag}))

get_scene_element_references(this, result) ==
    LET with_module == IF ~this.m_immutable THEN result \cup {this.m_module_tag}
                       ELSE result
    IN  collect_references(this.m_enable_if_conditions,
            collect_references(this.m_arguments, with_module))

\* ------------------------------------------------------------- inputs
\* The expressions a caller hands to set_argument: constants and other
\* expressions of every type, a call expression on every stored call, and
\* the null pointer.
Arguments ==
    {Constant(type, "v1") : type \in Types}
        \cup {Call(StoredCall[t].type, t) : t \in CallTags}
        \cup {Other(EK_PARAMETER, type) : type \in Types}
        \cup {Other(EK_TEMPORARY, T("float", {})), NullExpr}
\* Parameter positions and names a caller addresses, declared or not.
Indexes == 0..2
Names == {"a", "b", "z"}
\* The argument lists a caller hands to set_arguments: distinct names.
ListArguments ==
    {Constant(T("float", {}), "v2"), Constant(T("color", {}), "v2"),
     Call(StoredCall["call:3"].type, "call:3")}
ArgumentLists ==
    {list \in UNION {[1..n -> [name : Names, expr : ListArguments]] : n \in 0..MaxListLen} :
        \A i, j \in 1..Len(list) : list[i].name = list[j].name => i = j}

\* ------------------------------------------------------------- state
VARIABLES
    self,        \* the function call
    stream,      \* the serialized call on its way to deserialize(), or <<>>
    op,          \* the operation that has just returned and its inputs
    pre,         \* the call before that operation
    result,      \* the value set_argument(s) returned, or NoResult
    refs,        \* the tag set get_scene_element_references filled
    jit,         \* what create_jitted_function did
    crashed,     \* the process died on an invalid database access
    made_mutable,\* make_mutable has been called
    constructed  \* the call as constructed
vars == <<self, stream, op, pre, result, refs, jit, crashed, made_mutable, constructed>>

NoResult == "none"
Op(name) ==
    [name |-> name, index |-> -1, param |-> NullName, argument |-> NullExpr,
     arguments |-> <<>>, environment_context |-> FALSE, generator_jit_valid |-> FALSE,
     compiles |-> FALSE]

\* A call constructed from a stored definition with its default arguments:
\* a mutable call knows its module (ASSERT in get_scene_element_references),
\* an immutable default may not; the definition tag is valid (ASSERT in
\* get_function_definition).
Init ==
    /\ \E d \in DefTags, immutable \in BOOLEAN, module_tag \in ModuleTags \cup {NullTag} :
        /\ is_valid(module_tag) => module_tag = Definition[d].module
        /\ ~immutable => is_valid(module_tag)
        /\ self = Mdl_function_call(module_tag, d, Definition[d].function_index,
                    Definition[d].defaults, Definition[d].semantic, Definition[d].name,
                    Definition[d].parameter_types, Definition[d].return_type, immutable,
                    Definition[d].enable_if_conditions)
    /\ stream = <<>>
    /\ op = Op("none")
    /\ pre = self
    /\ result = NoResult
    /\ refs = {}
    /\ jit = NoJit
    /\ crashed = FALSE
    /\ made_mutable = FALSE
    /\ constructed = self

\* The call is in memory, the process alive and the caller about to make
\* its next call.
Idle == ~crashed /\ stream = <<>> /\ op.name = "none"

\* What an operation on the call leaves of the previous operation.
Did(o, node, code) ==
    /\ op' = o
    /\ pre' = self
    /\ self' = node
    /\ result' = code

SetArgumentByIndex ==
    /\ Idle
    /\ \E index \in Indexes, argument \in Arguments :
        LET done == set_argument(self, index, held_by_caller(argument))
        IN  Did([Op("set_argument") EXCEPT !.index = index, !.argument = argument],
                done.node, done.result)
    /\ refs' = {}
    /\ jit' = NoJit
    /\ UNCHANGED <<stream, crashed, made_mutable, constructed>>

SetArgumentByName ==
    /\ Idle
    /\ \E name \in Names \cup {NullName}, argument \in Arguments :
        LET done == set_argument_by_name(self, name, held_by_caller(argument))
        IN  Did([Op("set_argument_by_name") EXCEPT !.param = name, !.argument = argument],
                done.node, done.result)
    /\ refs' = {}
    /\ jit' = NoJit
    /\ UNCHANGED <<stream, crashed, made_mutable, constructed>>

SetArguments ==
    /\ Idle
    /\ \E arguments \in ArgumentLists \cup {NullList} :
        LET done == set_arguments(self, arguments)
        IN  Did([Op("set_arguments") EXCEPT !.arguments = arguments],
                done.node, done.result)
    /\ refs' = {}
    /\ jit' = NoJit
    /\ UNCHANGED <<stream, crashed, made_mutable, constructed>>

MakeMutable ==
    /\ Idle
    /\ Did(Op("make_mutable"), make_mutable(self), NoResult)
    /\ made_mutable' = TRUE
    /\ refs' = {}
    /\ jit' = NoJit
    /\ UNCHANGED <<stream, crashed, constructed>>

\* The copy constructor; the model goes on with the copy.
Copy ==
    /\ Idle
    /\ Did(Op("copy"), Mdl_function_call_copy(self), NoResult)
    /\ refs' = {}
    /\ jit' = NoJit
    /\ UNCHANGED <<stream, crashed, made_mutable, constructed>>

CreateJittedFunction ==
    /\ Idle
    /\ \E environment_context, generator_jit_valid, compiles \in BOOLEAN :
        /\ jit' = create_jitted_function(
                    self, environment_context, generator_jit_valid, compiles)
        /\ Did([Op("create_jitted_function") EXCEPT
                    !.environment_context = environment_context,
                    !.generator_jit_valid = generator_jit_valid,
                    !.compiles = compiles],
               self, NoResult)
    /\ crashed' = jit'.crashed
    /\ refs' = {}
    /\ UNCHANGED <<stream, made_mutable, constructed>>

GetSceneElementReferences ==
    /\ Idle
    /\ refs' = get_scene_element_references(self, {})
    /\ Did(Op("get_scene_element_references"), self, NoResult)
    /\ jit' = NoJit
    /\ UNCHANGED <<stream, crashed, made_mutable, constructed>>

\* The database writes the call out ...
Serialize ==
    /\ Idle
    /\ stream' = serialize(self)
    /\ Did(Op("serialize"), self, NoResult)
    /\ refs' = {}
    /\ jit' = NoJit
    /\ UNCHANGED <<crashed, made_mutable, constructed>>

\* ... and reads it back into a default constructed call, with which the
\* model goes on.
Deserialize ==
    /\ ~crashed
    /\ op.name = "serialize"
    /\ stream # <<>>
    /\ stream' = <<>>
    /\ op' = Op("deserialize")
    /\ self' = deserialize(stream)
    /\ UNCHANGED <<pre, result, refs, jit, crashed, made_mutable, constructed>>

\* The caller changes the expression it handed to the set_argument that has
\* just returned; `op` keeps the expression as it was handed in and the
\* index the parameter resolved to.
ChangeArgument ==
    /\ ~crashed
    /\ stream = <<>>
    /\ op.name \in {"set_argument", "set_argument_by_name"}
    /\ op.argument # NullExpr
    /\ op' = [op EXCEPT !.name = "change_argument",
                        !.index = IF op.name = "set_argument" THEN op.index
                                  ELSE get_parameter_index(self, op.param)]
    /\ self' = [self EXCEPT !.m_arguments = seen_through(@)]
    /\ UNCHANGED <<stream, pre, result, refs, jit, crashed, made_mutable, constructed>>

\* The caller has looked at what the operation returned and goes on.
Continue ==
    /\ ~crashed
    /\ stream = <<>>
    /\ op.name # "none"
    /\ op' = Op("none")
    /\ pre' = self
    /\ result' = NoResult
    /\ refs' = {}
    /\ jit' = NoJit
    /\ UNCHANGED <<self, stream, crashed, made_mutable, constructed>>

Next ==
    \/ SetArgumentByIndex
    \/ SetArgumentByName
    \/ SetArguments
    \/ MakeMutable
    \/ Copy
    \/ CreateJittedFunction
    \/ GetSceneElementReferences
    \/ Serialize
    \/ Deserialize
    \/ ChangeArgument
    \/ Continue

Spec == Init /\ [][Next]_vars

\* ------------------------------------------------------------- properties
\* The operation that has just returned is one of the two set_argument
\* overloads, and the index its parameter resolves to.
BindOne == op.name \in {"set_argument", "set_argument_by_name"}
ResolvedIndex ==
    IF op.name = "set_argument" THEN op.index ELSE get_index(pre.m_arguments, op.param)
Declared(node, index) == index \in 0..(Len(node.m_parameter_types) - 1)
Matches(node, index, argument) ==
    argument.type.base = node.m_parameter_types[index + 1].type.base
VaryingIntoUniform(node, index, argument) ==
    /\ MK_VARYING \in argument.type.mods
    /\ MK_UNIFORM \in node.m_parameter_types[index + 1].type.mods
EffectivelyVarying(node, index, argument) ==
    /\ MK_UNIFORM \in node.m_parameter_types[index + 1].type.mods
    /\ argument.kind = EK_CALL
    /\ StoredCall[argument.tag].varying
ConstantOrCall(argument) == argument.kind \in {EK_CONSTANT, EK_CALL}

\* The checks of the binding pipeline that an argument fails, by error
\* code; `missing` is what the first check rejects.
FailedChecks(node, index, argument, missing) ==
    LET typed == argument # NullExpr /\ Declared(node, index)
    IN  {c \in {-1, -2, -3, -4, -5, -6, -8} :
            \/ c = -1 /\ missing
            \/ c = -2 /\ ~Declared(node, index)
            \/ c = -3 /\ typed /\ ~Matches(node, index, argument)
            \/ c = -4 /\ node.m_immutable
            \/ c = -5 /\ typed /\ VaryingIntoUniform(node, index, argument)
            \/ c = -6 /\ argument # NullExpr /\ ~ConstantOrCall(argument)
            \/ c = -8 /\ typed /\ EffectivelyVarying(node, index, argument)}
\* The pipeline runs from -1 down to -8.
Earliest(codes) == CHOOSE c \in codes : \A d \in codes : c >= d

\* C1 as stated: set_argument returns the error of the earliest failing
\* check, the first check being "the argument is null".
C1_AsStated ==
    BindOne =>
        LET failed == FailedChecks(pre, ResolvedIndex, op.argument, op.argument = NullExpr)
        IN  failed # {} => result = Earliest(failed)

\* C1: set_argument returns the error of the earliest failing check in the
\* order -1, -2, -3, -4, -5, -6, -8, where the first check (-1) rejects a
\* null argument and, when the parameter is addressed by name, a null name.
C1_EarliestFailingCheck ==
    BindOne =>
        LET missing == \/ op.argument = NullExpr
                       \/ op.name = "set_argument_by_name" /\ op.param = NullName
            failed == FailedChecks(pre, ResolvedIndex, op.argument, missing)
        IN  failed # {} => result = Earliest(failed)

\* An argument failing the type, mutability and kind checks at once is
\* rejected as a type mismatch.
C1_Witness ==
    /\ BindOne
    /\ {-3, -4, -6} \subseteq
            FailedChecks(pre, ResolvedIndex, op.argument, op.argument = NullExpr)
    /\ result = -3

\* C2 as stated: set_argument on an immutable call returns -4 whatever the
\* argument and the parameter addressed.
C2_AsStated == (BindOne /\ pre.m_immutable) => result = -4

\* C2: set_argument on an immutable call never succeeds; it returns -4
\* exactly when the argument is not null, addresses a declared parameter and
\* has a matching type, and -1, -2 or -3 otherwise.
C2_ImmutableNeverBound ==
    (BindOne /\ pre.m_immutable) =>
        /\ result \in {-1, -2, -3, -4}
        /\ result = -4 <=>
                /\ op.argument # NullExpr
                /\ Declared(pre, ResolvedIndex)
                /\ Matches(pre, ResolvedIndex, op.argument)

\* A varying call of the right type handed to a uniform parameter of an
\* immutable call is rejected for the immutability.
C2_Witness ==
    /\ BindOne
    /\ pre.m_immutable
    /\ op.argument.kind = EK_CALL
    /\ Declared(pre, ResolvedIndex)
    /\ VaryingIntoUniform(pre, ResolvedIndex, op.argument)
    /\ result = -4

\* The argument is not null and addresses a declared parameter.
Addressed == BindOne /\ op.argument # NullExpr /\ Declared(pre, ResolvedIndex)

\* C3 as stated: set_argument succeeds iff the types match, the argument
\* is not varying for a uniform parameter, the call is mutable and the
\* argument is a constant or a call.
C3_AsStated ==
    Addressed =>
        (result = 0 <=>
            /\ Matches(pre, ResolvedIndex, op.argument)
            /\ ~VaryingIntoUniform(pre, ResolvedIndex, op.argument)
            /\ ~pre.m_immutable
            /\ ConstantOrCall(op.argument))

\* C3: set_argument succeeds iff the types match, the argument is not
\* varying for a uniform parameter, the call is mutable, the argument is a
\* constant or a call, and the argument is not a call whose return value is
\* varying handed to a uniform parameter.
C3_SuccessIff ==
    Addressed =>
        (result = 0 <=>
            /\ Matches(pre, ResolvedIndex, op.argument)
            /\ ~VaryingIntoUniform(pre, ResolvedIndex, op.argument)
            /\ ~pre.m_immutable
            /\ ConstantOrCall(op.argument)
            /\ ~EffectivelyVarying(pre, ResolvedIndex, op.argument))

\* A call expression of uniform parameter's type, not varying by its type
\* but by its return value, is rejected with -8 by a mutable call.
C3_Witness ==
    /\ Addressed
    /\ ~pre.m_immutable
    /\ Matches(pre, ResolvedIndex, op.argument)
    /\ ~VaryingIntoUniform(pre, ResolvedIndex, op.argument)
    /\ EffectivelyVarying(pre, ResolvedIndex, op.argument)
    /\ result = -8

\* The argument bound to the parameter `name` of a call.
Bound(node, name) == get_expression(node.m_arguments, name)
\* Everything of a call but the expressions bound to its parameters.
Frame(node) ==
    [node EXCEPT !.m_arguments =
        [i \in 1..Len(node.m_arguments) |-> node.m_arguments[i].name]]
\* set_arguments left the call as it is after binding the first `n` entries
\* of the list, each accepted by set_argument, and nothing else.
AppliedUpTo(n) ==
    /\ Frame(self) = Frame(pre)
    /\ \A i \in 1..n :
        /\ set_argument_by_name(pre, op.arguments[i].name, op.arguments[i].expr).result = 0
        /\ Bound(self, op.arguments[i].name) = op.arguments[i].expr
    /\ \A i \in 1..Len(self.m_arguments) :
            (\A j \in 1..n : op.arguments[j].name # self.m_arguments[i].name)
                => self.m_arguments[i] = pre.m_arguments[i]

\* C4: set_arguments binds the entries of the list in order with
\* set_argument; when entry k is the first one rejected it returns the
\* error of that entry, the entries before k stay bound and the parameters
\* of the entries from k on keep their bindings; when none is rejected it
\* returns 0 with every entry bound.
C4_BindAllNotTransactional ==
    (op.name = "set_arguments" /\ op.arguments # NullList) =>
        IF result = 0 THEN AppliedUpTo(Len(op.arguments))
        ELSE \E k \in 1..Len(op.arguments) :
                /\ AppliedUpTo(k - 1)
                /\ result = set_argument_by_name(
                                self, op.arguments[k].name, op.arguments[k].expr).result

\* A list of three entries whose second is rejected: the first is bound,
\* the third, which set_argument accepts, is not.
C4_Witness ==
    /\ op.name = "set_arguments"
    /\ op.arguments # NullList
    /\ Len(op.arguments) = 3
    /\ result # 0
    /\ Bound(self, op.arguments[1].name) = op.arguments[1].expr
    /\ Bound(pre, op.arguments[1].name) # op.arguments[1].expr
    /\ set_argument_by_name(self, op.arguments[2].name, op.arguments[2].expr).result # 0
    /\ set_argument_by_name(self, op.arguments[3].name, op.arguments[3].expr).result = 0
    /\ Bound(self, op.arguments[3].name) = Bound(pre, op.arguments[3].name)

\* C5: a set_argument that returns an error leaves every field of the
\* call as it was, whether the parameter is addressed by index or by name.
C5_FailedBindLeavesNode == (BindOne /\ result # 0) => self = pre

\* The last check of the pipeline rejects an argument addressed by name.
C5_Witness ==
    /\ op.name = "set_argument_by_name"
    /\ result = -8
    /\ self = pre

\* The return types create_jitted_function lowers: color, or the struct
\* ::base::texture_return of exactly the two fields (color, float).
AcceptedReturnType(type) ==
    LET t == skip_type_alias(type)
    IN  \/ t.kind = TK_COLOR
        \/ /\ t.kind = TK_STRUCT
           /\ t.symbol = TextureReturnName
           /\ Len(t.fields) = 2
           /\ skip_type_alias(t.fields[1]).kind = TK_COLOR
           /\ skip_type_alias(t.fields[2]).kind = TK_FLOAT
Lowered == op.name = "create_jitted_function"
DefinitionOf(node) == Definition[node.m_definition_tag]
\* No call to the MDL compiler was made beyond loading the code generator.
CompilerNotInvoked ==
    /\ ~jit.jitted_func
    /\ jit.lambda = "none"
    /\ jit.converted = <<>>
    /\ jit.calls = <<>>
    /\ jit.attached = "none"
    /\ jit.compiled = "none"

\* C6 as stated: lowering a call whose definition returns neither color
\* nor the legacy struct returns -2 without invoking the compiler.
C6_AsStated ==
    (Lowered /\ ~AcceptedReturnType(DefinitionOf(pre).mdl_return_type)) =>
        jit.errors = -2 /\ CompilerNotInvoked

\* C6: lowering a call whose definition returns neither color nor the
\* legacy struct returns -2 when the JIT code generator is available, and -1
\* when it is not, in both cases without invoking the compiler.
C6_UnsupportedReturnType ==
    (Lowered /\ ~AcceptedReturnType(DefinitionOf(pre).mdl_return_type)) =>
        /\ jit.errors = IF op.generator_jit_valid THEN -2 ELSE -1
        /\ CompilerNotInvoked

\* A struct of the fields (color, float) with another name is rejected.
C6_Witness ==
    /\ Lowered
    /\ op.generator_jit_valid
    /\ DefinitionOf(pre).mdl_return_type.kind = TK_STRUCT
    /\ DefinitionOf(pre).mdl_return_type.symbol # TextureReturnName
    /\ Len(DefinitionOf(pre).mdl_return_type.fields) = 2
    /\ jit.errors = -2

\* The positions of the definition's parameters whose argument does not
\* convert to a DAG node.
NotConverting(node) ==
    {i \in 1..Len(DefinitionOf(node).parameter_types) :
        ~int_expr_to_mdl_dag_node(
            node, Bound(node, DefinitionOf(node).parameter_types[i].name))}
\* The lowering got as far as converting the arguments.
ConversionReached ==
    /\ Lowered
    /\ op.generator_jit_valid
    /\ AcceptedReturnType(DefinitionOf(pre).mdl_return_type)
    /\ is_valid(pre.m_module_tag)

\* C7: a lowering in which the conversion of an argument fails returns -3
\* and no function: it converts the arguments of the parameters before the
\* first failing one, in the definition's order, and then creates no DAG
\* call, attaches nothing and calls no compile entry point.
C7_ConversionFailed ==
    (ConversionReached /\ NotConverting(pre) # {}) =>
        LET first == CHOOSE i \in NotConverting(pre) : \A j \in NotConverting(pre) : i <= j
        IN  /\ jit.errors = -3
            /\ ~jit.jitted_func
            /\ jit.converted =
                    [i \in 1..(first - 1) |-> DefinitionOf(pre).parameter_types[i].name]
            /\ jit.calls = <<>>
            /\ jit.attached = "none"
            /\ jit.compiled = "none"

\* The second argument is a call whose own argument is the lowered call.
C7_Witness ==
    /\ ConversionReached
    /\ Len(pre.m_arguments) = 2
    /\ pre.m_arguments[2].expr.kind = EK_CALL
    /\ SelfTag \in StoredCall[pre.m_arguments[2].expr.tag].args
    /\ jit.errors = -3
    /\ jit.converted = <<pre.m_arguments[1].name>>

\* The tags of the calls an expression list refers to.
ReferencedBy(list) ==
    {list[i].expr.tag : i \in {j \in 1..Len(list) : list[j].expr.kind = EK_CALL}}

\* C8: the references of an immutable call do not include its module, those
\* of a mutable call do, and both include every call the arguments and the
\* enable_if conditions refer to.
C8_References ==
    op.name = "get_scene_element_references" =>
        /\ pre.m_immutable => pre.m_module_tag \notin refs
        /\ ~pre.m_immutable => pre.m_module_tag \in refs
        /\ ReferencedBy(pre.m_arguments) \subseteq refs
        /\ ReferencedBy(pre.m_enable_if_conditions) \subseteq refs

\* An immutable call that knows its module and refers to another call.
C8_Witness ==
    /\ op.name = "get_scene_element_references"
    /\ pre.m_immutable
    /\ is_valid(pre.m_module_tag)
    /\ ReferencedBy(pre.m_arguments) # {}
    /\ pre.m_module_tag \notin refs

\* C9: the call read by deserialize equals, field by field, the call that
\* serialize wrote.
C9_RoundTrip ==
    op.name = "deserialize" =>
        /\ self.m_module_tag = pre.m_module_tag
        /\ self.m_definition_tag = pre.m_definition_tag
        /\ self.m_function_index = pre.m_function_index
        /\ self.m_mdl_semantic = pre.m_mdl_semantic
        /\ self.m_definition_name = pre.m_definition_name
        /\ self.m_immutable = pre.m_immutable
        /\ self.m_parameter_types = pre.m_parameter_types
        /\ self.m_return_type = pre.m_return_type
        /\ self.m_arguments = pre.m_arguments
        /\ self.m_enable_if_conditions = pre.m_enable_if_conditions

\* A mutable call with a rebound argument and an enable_if condition has
\* gone through the stream.
C9_Witness ==
    /\ op.name = "deserialize"
    /\ ~pre.m_immutable
    /\ pre.m_arguments # constructed.m_arguments
    /\ pre.m_enable_if_conditions # <<>>
    /\ self = pre

\* C10: make_mutable leaves a mutable call with a valid module tag (the
\* one it had, or the module of its definition when it had none) and
\* everything else as it was, and a second call changes nothing; and the
\* arguments of a call constructed immutable are those it was constructed
\* with until make_mutable has been called.
C10_MakeMutable ==
    /\ op.name = "make_mutable" =>
        /\ ~self.m_immutable
        /\ is_valid(self.m_module_tag)
        /\ self.m_module_tag =
                IF is_valid(pre.m_module_tag) THEN pre.m_module_tag
                ELSE DefinitionOf(pre).module
        /\ [self EXCEPT !.m_immutable = pre.m_immutable,
                        !.m_module_tag = pre.m_module_tag] = pre
        /\ make_mutable(self) = self
    /\ (constructed.m_immutable /\ ~made_mutable) =>
            self.m_arguments = constructed.m_arguments

\* make_mutable called a second time, on a call constructed immutable
\* without a module tag and rebound since.
C10_Witness ==
    /\ op.name = "make_mutable"
    /\ constructed.m_immutable
    /\ ~is_valid(constructed.m_module_tag)
    /\ ~pre.m_immutable
    /\ pre.m_arguments # constructed.m_arguments
    /\ self = pre

\* The names of the arguments and of the parameter types of a call, in
\* order.
ArgumentNames(node) == [i \in 1..Len(node.m_arguments) |-> node.m_arguments[i].name]
ParameterNames(node) ==
    [i \in 1..Len(node.m_parameter_types) |-> node.m_parameter_types[i].name]
\* The call holds at the parameter `index` an expression of the contents
\* handed in that is not the caller's object, and is otherwise as it was
\* before the set_argument.
StoredCopyAt(index) ==
    /\ Declared(pre, index)
    /\ self.m_arguments[index + 1].expr = op.argument
    /\ \A i \in 1..Len(self.m_arguments) :
        /\ ~is_held_by_caller(self.m_arguments[i].expr)
        /\ i # index + 1 => self.m_arguments[i] = pre.m_arguments[i]
    /\ Frame(self) = Frame(pre)

\* C11: a set_argument that returns 0 leaves at the parameter it resolved
\* to an expression equal in value to the argument that is not the
\* caller's object, in place of the one bound before, and every other
\* argument and every other field as they were; the call is the same once
\* the caller has changed its expression afterwards; and in every state
\* the names of the arguments are the names of the parameter types, in
\* the same order and number.
C11_BindOneStoresCopy ==
    /\ ArgumentNames(self) = ParameterNames(self)
    /\ Len(self.m_arguments) = Len(self.m_parameter_types)
    /\ (BindOne /\ result = 0) => StoredCopyAt(ResolvedIndex)
    /\ (op.name = "change_argument" /\ result = 0) => StoredCopyAt(op.index)

\* A set_argument by name has replaced the argument of the second
\* parameter of a call of several, and the caller has changed its
\* expression since: the call still holds the contents handed in.
C11_Witness ==
    /\ op.name = "change_argument"
    /\ result = 0
    /\ op.param # NullName
    /\ op.index = 1
    /\ Len(self.m_arguments) > 1
    /\ pre.m_arguments[2].expr # op.argument
    /\ self.m_arguments[2].expr = op.argument
    /\ self.m_arguments[2].expr # changed_by_caller(op.argument)
    /\ self.m_arguments[1] = pre.m_arguments[1]

====
